---- MODULE Spec2Model ----
(***************************************************************************)
(* SCC risk ranking: the three pipelines of the repository.                *)
(*   app    src/app.py            flag count, six-key ranking              *)
(*   utils  src/utils.py          composite score, four-key ranking        *)
(*   utils2 src/utils/utils.py    composite score, three-key ranking       *)
(*   graph  src/scc_graph_app.py  fixed-point score, High rows ranked by   *)
(*                                the weighted score                       *)
(* A table is a sequence of rows; a row holds one cell per column.  A cell *)
(* is what pandas reads from the sheet: a number, a blank (NaN), a text    *)
(* that is no number ("str"), a percent text such as "62%" ("pct"), or     *)
(* nothing at all when the sheet has no such column ("absent").            *)
(* Numbers are integers; all arithmetic of the pipelines is exact on them. *)
(***************************************************************************)
EXTENDS Integers, Sequences, FiniteSets, TLC

VARIABLES variant, cols, raw, df, top50, pc, err

vars == <<variant, cols, raw, df, top50, pc, err>>

\* ------------------------------------------------------------- bounds
\* rows of the small tables
MaxRows == 3
\* rows beyond TopN of the large tables
MaxOver == 1
\* columns a sheet may lack
MaxMissing == 2

\* ------------------------------------------------------------- cells
Num(v) == [t |-> "num", v |-> v]
NaN == [t |-> "nan", v |-> 0]
Str == [t |-> "str", v |-> 0]
Pct(v) == [t |-> "pct", v |-> v]
Absent == [t |-> "absent", v |-> 0]

IsNum(c) == c.t = "num"

Variants == {"app", "utils", "utils2", "graph"}
FlagVariants == {"app", "utils", "utils2"}

NumCols == {"hoop", "soil", "dist", "age", "temp", "psp"}
Required == {"st", "hoop", "soil", "dist", "age", "temp", "coat", "psp"}

\* head(50)
TopN == 50

\* pd.to_numeric(x, errors='coerce'): a number stays, anything else is NaN
ToNumeric(c) == IF c.t = "num" THEN c ELSE NaN

\* pd.to_numeric(x.astype(str).str.replace('%', ''), errors='coerce')
ToNumericPct(c) == IF c.t \in {"num", "pct"} THEN Num(c.v) ELSE NaN

\* Series.fillna(s)
FillNa(c, s) == IF c.t = "nan" THEN Num(s) ELSE c

\* mutant of Abs: the sign is kept
Abs_KeepSign(c) == c

\* Series.abs(): NaN stays NaN
Abs(c) == IF c.t = "num" /\ c.v < 0 THEN Num(-c.v) ELSE c

\* fallback sentinels
DistFillApp == 1000000000
DistFillUtils == 1000000
SoilFillUtils == 1000000000

Range(s) == {s[i] : i \in 1..Len(s)}

Min2(a, b) == IF a < b THEN a ELSE b

\* Series.max(): the largest number, NaN skipped; NaN when there is none
SeriesMax(cs) ==
    LET nums == {c.v : c \in {x \in Range(cs) : x.t = "num"}}
    IN  IF nums = {} THEN NaN ELSE Num(CHOOSE m \in nums : \A x \in nums : x <= m)

\* mutant of RescaleHoop: each value below 10 is rescaled on its own
RescaleHoop_PerRow(cs) ==
    [i \in 1..Len(cs) |-> IF cs[i].t = "num" /\ cs[i].v < 10 THEN Num(cs[i].v * 100) ELSE cs[i]]

\* if hs.max() < 10: hs *= 100   (NaN < 10 is False; NaN * 100 is NaN)
RescaleHoop(cs) ==
    LET m == SeriesMax(cs)
    IN  IF m.t = "num" /\ m.v < 10
        THEN [i \in 1..Len(cs) |-> IF cs[i].t = "num" THEN Num(cs[i].v * 100) ELSE cs[i]]
        ELSE cs

Column(d, c) == [i \in 1..Len(d) |-> d[i][c]]
SetColumn(d, c, cs) == [i \in 1..Len(d) |-> [d[i] EXCEPT ![c] = cs[i]]]

\* one cell through the chain  to_numeric [.abs()] [.fillna(fill)];  filling
\* with NaN is no fillna at all
Convert(x, pct, takeAbs, fill) ==
    LET n == IF pct THEN ToNumericPct(x) ELSE ToNumeric(x)
        a == IF takeAbs THEN Abs(n) ELSE n
    IN  IF a.t = "nan" THEN fill ELSE a

MapColumn(d, c, pct, takeAbs, fill) ==
    [i \in 1..Len(d) |-> [d[i] EXCEPT ![c] = Convert(d[i][c], pct, takeAbs, fill)]]

\* ------------------------------------------------------------- rows
\* CoatingType texts; "nan" is what str() makes of a blank cell
CoatingTexts == {"FBE", "Plant CTE", "Coal Tar Enamel", "nan"}
NoColumn == "<absent>"

\* any(x in str(c).upper() for x in ['CTE', 'COAL TAR'])
ContainsCteOrCoalTar(c) == c \in {"Plant CTE", "Coal Tar Enamel"}
\* c.upper() in ['FBE', 'LIQUID EPOXY']
IsFbeOrLiquidEpoxy(c) == c \in {"FBE"}
\* isinstance(c, str) and "plant cte" in c.lower(): a blank cell is a float
ContainsPlantCte(c) == c \in {"Plant CTE"}

NoFlags == [stress |-> 0, soil |-> 0, dist |-> 0, age |-> 0, temp |-> 0, coat |-> 0, psp |-> 0]
FlagNames == {"stress", "soil", "dist", "age", "temp", "coat", "psp"}
\* RiskScore of utils: score * 100000 = A + 20000 * (M - d) / M, NaN when M is NaN
NoScore == [nan |-> TRUE, A |-> 0, d |-> 0, M |-> 1]

\* the values a sheet row is built from: both sides of every threshold ...
BaseRows ==
    [idx : {0}, st : {Num(100)}, hoop : {Num(6), Num(61)}, soil : {Num(4999), Num(5000)},
     dist : {Num(32), Num(33)}, age : {Num(10), Num(11)}, temp : {Num(38), Num(39)},
     coat : {"FBE", "Plant CTE"}, psp : {Num(-2), Num(1)},
     flags : {NoFlags}, FlagsSum : {-1}, RiskScore : {NoScore}, RiskCategory : {""},
     SCCScore : {-1}, Weighted : {NaN}, Level : {""}]

\* ... and the cells one column of a row may hold instead
Cells(c) ==
    CASE c = "st" -> {Num(100), NaN, Str}
      [] c = "hoop" -> {Num(6), Num(61), Num(60), Num(5), NaN, Pct(62), Str}
      [] c = "soil" -> {Num(4999), Num(5000), NaN, Str}
      [] c = "dist" -> {Num(32), Num(33), Num(0), NaN, Str}
      [] c = "age" -> {Num(10), Num(11), NaN, Str}
      [] c = "temp" -> {Num(38), Num(39), NaN}
      [] c = "coat" -> CoatingTexts
      [] c = "psp" -> {Num(-2), Num(1), NaN, Str}

\* rows of the large tables: every criterion met, or none
BigRows ==
    {a \in BaseRows :
        \/ /\ a.hoop = Num(61) /\ a.soil = Num(4999) /\ a.dist = Num(32) /\ a.age = Num(11)
           /\ a.temp = Num(39) /\ a.coat = "Plant CTE" /\ a.psp = Num(-2)
        \/ /\ a.hoop = Num(6) /\ a.soil = Num(5000) /\ a.dist = Num(33) /\ a.age = Num(10)
           /\ a.temp = Num(38) /\ a.coat = "FBE" /\ a.psp = Num(1)}

\* a sheet without column c has no cell there
DropColumn(r, c) == [r EXCEPT ![c] = IF c = "coat" THEN NoColumn ELSE Absent]

RECURSIVE DropColumns(_, _)
DropColumns(r, cs) ==
    IF cs = {} THEN r
    ELSE LET c == CHOOSE x \in cs : TRUE IN DropColumns(DropColumn(r, c), cs \ {c})

\* the sheet: n >= 1 rows b, a, b, a, ... indexed 1..n in sheet order
Table(a, b, n, missing) ==
    [i \in 1..n |-> [DropColumns(IF i % 2 = 1 THEN b ELSE a, missing) EXCEPT !.idx = i]]

Missing == Required \ cols

NoError == [type |-> "none", cols |-> {}]
KeyError(c) == [type |-> "KeyError", cols |-> {c}]
TypeError == [type |-> "TypeError", cols |-> {}]
AttributeError == [type |-> "AttributeError", cols |-> {}]

InitRows ==
    \E a \in BaseRows, c \in Required, n \in 1..MaxRows :
        \E v \in Cells(c) :
            /\ cols = Required
            /\ raw = Table(a, [a EXCEPT ![c] = v], n, {})

InitBig ==
    \E a \in BigRows, c \in Required, n \in (TopN + 1)..(TopN + MaxOver) :
        \E v \in Cells(c) :
            /\ cols = Required
            /\ raw = Table(a, [a EXCEPT ![c] = v], n, {})

InitSchema ==
    \E a \in BigRows, n \in 1..MaxRows, m \in SUBSET Required :
        /\ m # {} /\ Cardinality(m) <= MaxMissing
        /\ cols = Required \ m
        /\ raw = Table(a, a, n, m)

Init ==
    /\ variant \in Variants
    /\ InitRows \/ InitBig \/ InitSchema
    /\ df = raw
    /\ top50 = <<>>
    /\ pc = "loaded"
    /\ err = NoError

\* ------------------------------------------------------------- ranking
CmpDesc(x, y) == IF x > y THEN -1 ELSE IF x < y THEN 1 ELSE 0
CmpAsc(x, y) == CmpDesc(y, x)

\* the first key that tells two rows apart decides
Then(c, rest) == IF c # 0 THEN c ELSE rest

\* the place of every row of d in key order, cmp[j][i] being the comparison of
\* rows j and i on the sort keys: after the rows that come before it and, when
\* tiesInOrder, after the earlier rows that tie with it (else after the later ones)
Positions(d, cmp, tiesInOrder) ==
    [i \in 1..Len(d) |->
        1 + Cardinality({j \in 1..Len(d) :
                \/ cmp[j][i] = -1
                \/ cmp[j][i] = 0 /\ IF tiesInOrder THEN j < i ELSE j > i})]

Place(d, pos) == [p \in 1..Len(d) |-> d[CHOOSE i \in 1..Len(d) : pos[i] = p]]

\* DataFrame.sort_values on several keys (lexsort): rows in key order, rows that
\* agree on every key in their order in d
SortStable(d, cmp) ==
    CHOOSE r \in {Place(d, pos) : pos \in {Positions(d, cmp, TRUE)}} : TRUE

\* mutant of HeadN: no truncation
HeadN_NoCut(d) == d

\* DataFrame.head(50)
HeadN(d) == SubSeq(d, 1, Min2(TopN, Len(d)))

\* ------------------------------------------------------------- flags
B2I(b) == IF b THEN 1 ELSE 0
\* comparisons of a cell with a number; any comparison with NaN is False
Gt(c, k) == c.t = "num" /\ c.v > k
Ge(c, k) == c.t = "num" /\ c.v >= k
Lt(c, k) == c.t = "num" /\ c.v < k
Le(c, k) == c.t = "num" /\ c.v <= k
\* x > -1.2 and x > 1.2 on whole volts
GtMinus1p2(c) == c.t = "num" /\ 10 * c.v > -12
Gt1p2(c) == c.t = "num" /\ 10 * c.v > 12

\* mutant of RiskCategoryOf: High only above 4
RiskCategoryOf_StrictHigh(x) == IF x > 4 THEN "High" ELSE IF x >= 2 THEN "Medium" ELSE "Low"

\* 'High' if x >= 4 else ('Medium' if x >= 2 else 'Low')
RiskCategoryOf(x) == IF x >= 4 THEN "High" ELSE IF x >= 2 THEN "Medium" ELSE "Low"

\* mutant of SumFlags: the OFF PSP flag is left out of the sum
SumFlags_NoPsp(f) == f.stress + f.soil + f.dist + f.age + f.temp + f.coat

\* flag_df.sum(axis=1) / flags.sum(axis=1)
SumFlags(f) == f.stress + f.soil + f.dist + f.age + f.temp + f.coat + f.psp

WithFlags(r, f) ==
    [r EXCEPT !.flags = f, !.FlagsSum = SumFlags(f), !.RiskCategory = RiskCategoryOf(SumFlags(f))]

\* ------------------------------------------------------------- app.py
AppCleanOrder == <<"hoop", "psp", "dist", "age", "temp">>

\* the first column of order the sheet lacks (0: none)
FirstMissing(order) ==
    IF \A i \in 1..Len(order) : order[i] \in cols THEN 0
    ELSE CHOOSE i \in 1..Len(order) :
            /\ order[i] \notin cols
            /\ \A j \in 1..(i - 1) : order[j] \in cols

CleanHoopFilled(d) ==
    SetColumn(d, "hoop",
              RescaleHoop(Column(MapColumn(d, "hoop", TRUE, FALSE, Num(0)), "hoop")))

AppCleanColumn(d, c) ==
    CASE c = "hoop" -> CleanHoopFilled(d)
      [] c = "psp" -> MapColumn(d, "psp", FALSE, TRUE, Num(0))
      [] c = "dist" -> MapColumn(d, "dist", FALSE, FALSE, Num(DistFillApp))
      [] c = "age" -> MapColumn(d, "age", FALSE, FALSE, Num(0))
      [] c = "temp" -> MapColumn(d, "temp", FALSE, FALSE, Num(0))

RECURSIVE AppCleanUpTo(_, _)
AppCleanUpTo(d, k) ==
    IF k = 0 THEN d ELSE AppCleanColumn(AppCleanUpTo(d, k - 1), AppCleanOrder[k])

\* lines 46-56: each statement cleans one column in place; df[c] of a column the
\* sheet lacks raises KeyError and ends the script
AppClean ==
    /\ variant = "app" /\ pc = "loaded"
    /\ LET k == FirstMissing(AppCleanOrder)
       IN  /\ df' = AppCleanUpTo(df, IF k = 0 THEN Len(AppCleanOrder) ELSE k - 1)
           /\ pc' = IF k = 0 THEN "cleaned" ELSE "failed"
           /\ err' = IF k = 0 THEN NoError ELSE KeyError(AppCleanOrder[k])
    /\ UNCHANGED <<variant, cols, raw, top50>>

\* mutant of flags_row: pipe age flagged from 10 on
flags_row_AgeInclusive(r) ==
    [stress |-> B2I(Gt(r.hoop, 60)),
     soil |-> B2I(Lt(r.soil, 5000)),
     dist |-> B2I(Le(r.dist, 32)),
     age |-> B2I(Ge(r.age, 10)),
     temp |-> B2I(Gt(r.temp, 38)),
     coat |-> B2I(ContainsCteOrCoalTar(r.coat)),
     psp |-> B2I(GtMinus1p2(r.psp))]

\* flags_row: Soil Resistivity is compared as read from the sheet
flags_row(r) ==
    [stress |-> B2I(Gt(r.hoop, 60)),
     soil |-> B2I(Lt(r.soil, 5000)),
     dist |-> B2I(Le(r.dist, 32)),
     age |-> B2I(Gt(r.age, 10)),
     temp |-> B2I(Gt(r.temp, 38)),
     coat |-> B2I(ContainsCteOrCoalTar(r.coat)),
     psp |-> B2I(GtMinus1p2(r.psp))]

IsText(c) == c.t \in {"str", "pct"}

\* what df.apply(flags_row, axis=1) raises, row by row and key by key
AppFlagsError ==
    IF "soil" \notin cols THEN KeyError("soil")
    ELSE IF IsText(df[1].soil) THEN TypeError
    ELSE IF "coat" \notin cols THEN KeyError("coat")
    ELSE IF \E i \in 1..Len(df) : IsText(df[i].soil) THEN TypeError
    ELSE NoError

\* lines 59-76, the flags taken as the seven 0/1 columns the script sums
AppFlags ==
    /\ variant = "app" /\ pc = "cleaned"
    /\ LET e == AppFlagsError
       IN  /\ err' = e
           /\ pc' = IF e = NoError THEN "assessed" ELSE "failed"
           /\ df' = IF e = NoError
                    THEN [i \in 1..Len(df) |-> WithFlags(df[i], flags_row(df[i]))]
                    ELSE df
    /\ UNCHANGED <<variant, cols, raw, top50>>

\* line 72: flags_row returns a dict, so df.apply yields one column of dicts, not
\* seven columns; pd.to_numeric / astype(int) of a dict raises in the library.
\* Whether the installed pandas expands the dicts is not fixed by the script.
AppFlagsRaise ==
    /\ variant = "app" /\ pc = "cleaned"
    /\ AppFlagsError = NoError
    /\ err' = TypeError
    /\ pc' = "failed"
    /\ UNCHANGED <<variant, cols, raw, df, top50>>

AppCmp(r, s) ==
    Then(CmpDesc(r.FlagsSum, s.FlagsSum),
    Then(CmpDesc(r.hoop.v, s.hoop.v),
    Then(CmpDesc(r.psp.v, s.psp.v),
    Then(CmpAsc(r.dist.v, s.dist.v),
    Then(CmpDesc(r.age.v, s.age.v),
         CmpDesc(r.temp.v, s.temp.v))))))

AppOrder(d) == [j \in 1..Len(d) |-> [i \in 1..Len(d) |-> AppCmp(d[j], d[i])]]

\* lines 79-82
AppRank ==
    /\ variant = "app" /\ pc = "assessed"
    /\ \E cmp \in {AppOrder(df)} :
          \E sorted \in {SortStable(df, cmp)} : top50' = HeadN(sorted)
    /\ pc' = "ranked"
    /\ UNCHANGED <<variant, cols, raw, df, err>>

\* lines 84-89 and 147-152: the Top-50 view selects 'Stationing (m)'
AppShow ==
    /\ variant = "app" /\ pc = "ranked"
    /\ pc' = IF "st" \in cols THEN "done" ELSE "failed"
    /\ err' = IF "st" \in cols THEN NoError ELSE KeyError("st")
    /\ UNCHANGED <<variant, cols, raw, df, top50>>

\* ------------------------------------------------------------- utils.py, utils/utils.py
UtilsCleanOrder == <<"psp", "hoop", "dist", "age", "temp", "soil", "coat">>

UtilsCleanColumn(d, c) ==
    CASE c = "psp" -> MapColumn(d, "psp", FALSE, TRUE, Num(0))
      [] c = "hoop" -> CleanHoopFilled(d)
      [] c = "dist" -> MapColumn(d, "dist", FALSE, FALSE, Num(DistFillUtils))
      [] c = "age" -> MapColumn(d, "age", FALSE, FALSE, Num(0))
      [] c = "temp" -> MapColumn(d, "temp", FALSE, FALSE, Num(0))
      [] c = "soil" -> MapColumn(d, "soil", FALSE, FALSE, Num(SoilFillUtils))
      \* astype(str): a text stays, a blank cell is already held as "nan"
      [] c = "coat" -> d

\* what load_data does at a column the sheet lacks: utils.py guards OFF PSP and
\* Hoop stress with "if c in df.columns" and skips them, utils/utils.py indexes
\* them (KeyError); for the others df.get(c, 0) is the scalar 0, pd.to_numeric
\* of it has no fillna, and '' has no astype (AttributeError)
UtilsLoadError(c) ==
    IF c \in cols THEN NoError
    ELSE IF c \in {"psp", "hoop"}
         THEN IF variant = "utils" THEN NoError ELSE KeyError(c)
         ELSE AttributeError

\* the first column of UtilsCleanOrder at which load_data raises (0: none)
UtilsFirstError ==
    IF \A i \in 1..Len(UtilsCleanOrder) : UtilsLoadError(UtilsCleanOrder[i]) = NoError THEN 0
    ELSE CHOOSE i \in 1..Len(UtilsCleanOrder) :
            /\ UtilsLoadError(UtilsCleanOrder[i]) # NoError
            /\ \A j \in 1..(i - 1) : UtilsLoadError(UtilsCleanOrder[j]) = NoError

RECURSIVE UtilsCleanUpTo(_, _)
UtilsCleanUpTo(d, k) ==
    IF k = 0 THEN d
    ELSE LET c == UtilsCleanOrder[k]
         IN  IF c \in cols THEN UtilsCleanColumn(UtilsCleanUpTo(d, k - 1), c)
             ELSE UtilsCleanUpTo(d, k - 1)

\* load_data
UtilsLoadData ==
    /\ variant \in {"utils", "utils2"} /\ pc = "loaded"
    /\ LET k == UtilsFirstError
       IN  /\ df' = UtilsCleanUpTo(df, IF k = 0 THEN Len(UtilsCleanOrder) ELSE k - 1)
           /\ pc' = IF k = 0 THEN "cleaned" ELSE "failed"
           /\ err' = IF k = 0 THEN NoError ELSE UtilsLoadError(UtilsCleanOrder[k])
    /\ UNCHANGED <<variant, cols, raw, top50>>

flag_criteria(r) ==
    [stress |-> B2I(Gt(r.hoop, 60)),
     age |-> B2I(Gt(r.age, 10)),
     temp |-> B2I(Gt(r.temp, 38)),
     dist |-> B2I(Le(r.dist, 32)),
     coat |-> B2I(~IsFbeOrLiquidEpoxy(r.coat)),
     soil |-> B2I(Lt(r.soil, 5000)),
     psp |-> B2I(GtMinus1p2(r.psp))]

\* df['Distance from Pump(KM)'].replace(0, np.nan).max() or 1: NaN is truthy, so
\* "or 1" only replaces a 0, which replace(0, nan) has already removed
max_dist(d) ==
    SeriesMax([i \in 1..Len(d) |-> IF d[i].dist = Num(0) THEN NaN ELSE d[i].dist])

Clip(x, lo, hi) == IF x < lo THEN lo ELSE IF x > hi THEN hi ELSE x

\* compute_risk_score, times 100000:
\*   600 * hoop - 15000 * psp + 20000 * (M - dist) / M + (10000 - clip(soil, 0, 10000))
compute_risk_score(r, m) ==
    [nan |-> m.t # "num",
     A |-> 600 * r.hoop.v - 15000 * r.psp.v + 10000 - Clip(r.soil.v, 0, 10000),
     d |-> r.dist.v,
     M |-> IF m.t = "num" THEN m.v ELSE 1]

Sign(x) == IF x > 0 THEN 1 ELSE IF x < 0 THEN -1 ELSE 0

\* the sign of a/b - c/d for b > 0 and d > 0, without multiplying
RECURSIVE CmpFrac(_, _, _, _)
CmpFrac(a, b, c, d) ==
    LET qa == a \div b
        ra == a % b
        qc == c \div d
        rc == c % d
    IN  IF qa # qc THEN Sign(qa - qc)
        ELSE IF ra = 0 \/ rc = 0 THEN Sign(ra - rc)
        ELSE CmpFrac(d, rc, b, ra)

\* RiskScore descending; NaN scores tie
CmpScoreDesc(x, y) ==
    IF x.nan \/ y.nan THEN 0
    ELSE -CmpFrac(x.A - y.A, 20000, x.d - y.d, x.M)

UtilsCmp(r, s) ==
    Then(CmpScoreDesc(r.RiskScore, s.RiskScore),
    Then(CmpDesc(r.hoop.v, s.hoop.v),
    Then(CmpDesc(r.psp.v, s.psp.v),
         IF variant = "utils" THEN CmpAsc(r.dist.v, s.dist.v) ELSE 0)))

\* flag_criteria(df) indexes the seven columns in this order
FlagCriteriaError ==
    IF "hoop" \notin cols THEN KeyError("hoop")
    ELSE IF "psp" \notin cols THEN KeyError("psp")
    ELSE NoError

Assessed(d) ==
    LET m == max_dist(d)
    IN  [i \in 1..Len(d) |->
            [WithFlags(d[i], flag_criteria(d[i])) EXCEPT !.RiskScore = compute_risk_score(d[i], m)]]

UtilsOrder(d) == [j \in 1..Len(d) |-> [i \in 1..Len(d) |-> UtilsCmp(d[j], d[i])]]

\* get_top_50_risks
UtilsGetTop50 ==
    /\ variant \in {"utils", "utils2"} /\ pc = "cleaned"
    /\ LET e == FlagCriteriaError
       IN  /\ err' = e
           /\ pc' = IF e = NoError THEN "done" ELSE "failed"
           /\ IF e = NoError
              THEN \E a \in {Assessed(df)} :
                      /\ df' = a
                      /\ \E cmp \in {UtilsOrder(a)} :
                            \E sorted \in {SortStable(a, cmp)} : top50' = HeadN(sorted)
              ELSE UNCHANGED <<df, top50>>
    /\ UNCHANGED <<variant, cols, raw>>

\* ------------------------------------------------------------- scc_graph_app.py
CleanHoopGraph(d) ==
    SetColumn(d, "hoop", RescaleHoop(Column(MapColumn(d, "hoop", TRUE, FALSE, NaN), "hoop")))

\* lines 54-75: the GPS preview selects 'Stationing (m)'; OFF PSP and Hoop stress
\* are converted when present, blanks stay NaN
GraphClean ==
    /\ variant = "graph" /\ pc = "loaded"
    /\ IF "st" \notin cols
       THEN /\ pc' = "failed" /\ err' = KeyError("st") /\ df' = df
       ELSE /\ pc' = "cleaned" /\ err' = NoError
            /\ \E d1 \in {IF "psp" \in cols
                          THEN MapColumn(df, "psp", FALSE, TRUE, NaN) ELSE df} :
                  df' = IF "hoop" \in cols THEN CleanHoopGraph(d1) ELSE d1
    /\ UNCHANGED <<variant, cols, raw, top50>>

\* float(row[c]) raises for a column the sheet lacks (KeyError) and for a text
\* (ValueError); the bare except ends the function with what it has so far
Raises(c) == c.t \in {"absent", "str", "pct"}

scc_risk_score(r) ==
    LET ok1 == ~Raises(r.hoop)
        ok3 == ok1 /\ ~Raises(r.dist)
        ok4 == ok3 /\ ~Raises(r.psp)
        ok5 == ok4 /\ ~Raises(r.age)
        ok6 == ok5 /\ ~Raises(r.temp)
    IN  (IF ok1 /\ Ge(r.hoop, 60) THEN 10 ELSE 0)
      + (IF ok1 /\ ContainsPlantCte(r.coat) THEN 10 ELSE 0)
      + (IF ok3 /\ Lt(r.dist, 32) THEN 10 ELSE 0)
      + (IF ok4 /\ Gt1p2(r.psp) THEN 5 ELSE 0)
      + (IF ok5 /\ Gt(r.age, 10) THEN 10 ELSE 0)
      + (IF ok6 /\ Gt(r.temp, 38) THEN 10 ELSE 0)

\* weighted_risk_score, times 10: 6 * stress + 2 * distance + 2 * psp
weighted_risk_score(r) ==
    IF Raises(r.hoop) \/ Raises(r.dist) \/ Raises(r.psp) THEN Num(0)
    ELSE IF r.hoop.t = "nan" \/ r.dist.t = "nan" \/ r.psp.t = "nan" THEN NaN
    ELSE Num(6 * r.hoop.v + 2 * r.dist.v + 2 * r.psp.v)

\* pd.cut(score, bins=[-1, 19, 34, 55], labels=["Low", "Moderate", "High"])
RiskLevel(x) ==
    IF x > -1 /\ x <= 19 THEN "Low"
    ELSE IF x > 19 /\ x <= 34 THEN "Moderate"
    ELSE IF x > 34 /\ x <= 55 THEN "High"
    ELSE "nan"

\* lines 111-113
GraphScore ==
    /\ variant = "graph" /\ pc = "cleaned"
    /\ df' = [i \in 1..Len(df) |->
                [df[i] EXCEPT !.SCCScore = scc_risk_score(df[i]),
                              !.Weighted = weighted_risk_score(df[i]),
                              !.Level = RiskLevel(scc_risk_score(df[i]))]]
    /\ pc' = "assessed"
    /\ UNCHANGED <<variant, cols, raw, top50, err>>

GraphCmp(r, s) == CmpDesc(r.Weighted.v, s.Weighted.v)

GraphOrder(d) == [j \in 1..Len(d) |-> [i \in 1..Len(d) |-> GraphCmp(d[j], d[i])]]

IsHigh(r) == r.Level = "High"
HasWeighted(r) == r.Weighted.t = "num"
NoWeighted(r) == r.Weighted.t # "num"

\* sort_values on one key sorts with kind='quicksort', which pandas documents as
\* not stable: rows with equal keys come out in their order in d (tiesInOrder)
\* or not; rows whose key is NaN follow, in their order in d
SortOneKey(d, tiesInOrder) ==
    CHOOSE r \in UNION {UNION {{Place(nums, pos) \o SelectSeq(d, NoWeighted) :
                                    pos \in {Positions(nums, cmp, tiesInOrder)}} :
                                cmp \in {GraphOrder(nums)}} :
                        nums \in {SelectSeq(d, HasWeighted)}} : TRUE

\* lines 131-135
GraphTop50 ==
    /\ variant = "graph" /\ pc = "assessed"
    /\ \E tiesInOrder \in BOOLEAN :
          \E sorted \in {SortOneKey(SelectSeq(df, IsHigh), tiesInOrder)} :
              top50' = HeadN(sorted)
    /\ pc' = "done"
    /\ UNCHANGED <<variant, cols, raw, df, err>>

Next ==
    \/ AppClean \/ AppFlags \/ AppFlagsRaise \/ AppRank \/ AppShow
    \/ UtilsLoadData \/ UtilsGetTop50
    \/ GraphClean \/ GraphScore \/ GraphTop50

Spec == Init /\ [][Next]_vars

\* ------------------------------------------------------------- properties
Rows(d) == {d[i] : i \in 1..Len(d)}

\* the state in which the pipeline has produced its Top-50
Ranked == IF variant = "app" THEN pc \in {"ranked", "done"} ELSE pc = "done"

\* the state in which every row of df carries its assessment
Assessing == IF variant = "graph" THEN pc \in {"assessed", "done"}
             ELSE IF variant = "app" THEN pc \in {"assessed", "ranked", "done"}
             ELSE pc = "done"

\* C1: when the sheet lacks a required column, the pipeline fails naming exactly
\* the missing columns before any row is normalized, flagged or scored, and no
\* Top-50 is produced
C1_FailsBeforeProcessing ==
    (Missing # {} /\ pc # "loaded") =>
        /\ pc = "failed"
        /\ err.cols = Missing
        /\ df = raw
        /\ top50 = <<>>

\* C2: the assessed rows and the Top-50 rows are exactly the sheet rows whose
\* stationing is a number: rows without stationing are dropped, all others kept
C2_NoRowWithoutStationing ==
    ("st" \in cols /\ Assessing) =>
        /\ {r.idx : r \in Rows(df)} = {i \in 1..Len(raw) : IsNum(raw[i].st)}
        /\ \A r \in Rows(top50) : IsNum(r.st)

\* C3: the risk category of every assessed record is High when its flag count is
\* at least 4, Medium when it is 2 or 3 and Low when it is 0 or 1
C3_CategoryFromFlagCount ==
    (variant \in FlagVariants /\ Assessing) =>
        \A r \in Rows(df) \cup Rows(top50) :
            \/ r.FlagsSum >= 4 /\ r.RiskCategory = "High"
            \/ r.FlagsSum \in {2, 3} /\ r.RiskCategory = "Medium"
            \/ r.FlagsSum \in {0, 1} /\ r.RiskCategory = "Low"

C3_Witness ==
    /\ variant \in FlagVariants /\ Assessing
    /\ \E r, q \in Rows(df) :
          /\ r.FlagsSum = 4 /\ r.RiskCategory = "High"
          /\ q.FlagsSum = 3 /\ q.RiskCategory = "Medium"

\* C4: the flag count of every assessed record is the number of its seven flags
\* that are set, and so lies in 0..7
C4_FlagCountIsNumberOfFlags ==
    (variant \in FlagVariants /\ Assessing) =>
        \A r \in Rows(df) \cup Rows(top50) :
            /\ DOMAIN r.flags = FlagNames
            /\ \A f \in FlagNames : r.flags[f] \in {0, 1}
            /\ r.FlagsSum = Cardinality({f \in FlagNames : r.flags[f] = 1})
            /\ r.FlagsSum \in 0..7

C4_Witness ==
    /\ variant \in FlagVariants /\ Assessing
    /\ \E r \in Rows(df) : r.FlagsSum = 7
    /\ \E r \in Rows(df) : r.FlagsSum = 6 /\ r.flags.age = 0

\* the rows the Top-50 is taken from: the High rows in the category-filtered
\* pipeline, every assessed row in the others
Qualifies(r) == variant = "graph" => r.Level = "High"

\* C5: every Top-50 row is an assessed row, no assessed row is taken twice, and
\* the Top-50 holds min(50, number of qualifying rows) rows
C5_Top50SubsetOfLength ==
    Ranked =>
        /\ \A i \in 1..Len(top50) :
              /\ top50[i].idx \in 1..Len(df)
              /\ top50[i] = df[top50[i].idx]
              /\ Qualifies(top50[i])
        /\ Cardinality({top50[i].idx : i \in 1..Len(top50)}) = Len(top50)
        /\ LET q == Cardinality({i \in 1..Len(df) : Qualifies(df[i])})
           IN  Len(top50) = IF q < 50 THEN q ELSE 50

C5_Witness ==
    /\ Ranked
    /\ Cardinality({i \in 1..Len(df) : Qualifies(df[i])}) > 50
    /\ Len(top50) = 50

\* the primary key of the pipeline, descending
PrimaryCmp(r, s) ==
    IF variant = "app" THEN CmpDesc(r.FlagsSum, s.FlagsSum)
    ELSE CmpScoreDesc(r.RiskScore, s.RiskScore)

\* the key chain: primary, hoop stress, OFF PSP descending, distance ascending,
\* pipe age, temperature descending (-1: r is strictly before s)
ChainCmp(r, s) ==
    Then(PrimaryCmp(r, s),
    Then(CmpDesc(r.hoop.v, s.hoop.v),
    Then(CmpDesc(r.psp.v, s.psp.v),
    Then(CmpAsc(r.dist.v, s.dist.v),
    Then(CmpDesc(r.age.v, s.age.v),
         CmpDesc(r.temp.v, s.temp.v))))))

\* C6: the Top-50 is in the order of the key chain, and no row left out is
\* strictly before a row taken
C6_OrderedByKeyChain ==
    (variant \in FlagVariants /\ Ranked) =>
        /\ \A i, j \in 1..Len(top50) : i < j => ChainCmp(top50[j], top50[i]) # -1
        /\ \A k \in 1..Len(df) :
              k \notin {top50[i].idx : i \in 1..Len(top50)} =>
                  \A i \in 1..Len(top50) : ChainCmp(df[k], top50[i]) # -1

\* rows that agree on the primary key and on every tie-break key
SameKeys(r, s) ==
    /\ r.FlagsSum = s.FlagsSum /\ r.RiskScore = s.RiskScore /\ r.Weighted = s.Weighted
    /\ r.hoop = s.hoop /\ r.psp = s.psp /\ r.dist = s.dist /\ r.age = s.age /\ r.temp = s.temp

\* C7: rows that agree on every key are in the Top-50 in their order in the sheet
C7_StableRanking ==
    Ranked =>
        \A i, j \in 1..Len(top50) :
            (i < j /\ SameKeys(top50[i], top50[j])) => top50[i].idx < top50[j].idx

\* C8 as claimed: at the boundaries, stress at 60 is not flagged and at 61 is,
\* soil at 5000 is not flagged, distance at 32 is, pipe age at 10 is
C8_BoundariesAsClaimed ==
    (variant \in FlagVariants /\ Assessing) =>
        \A r \in Rows(df) :
            /\ r.hoop = Num(60) => r.flags.stress = 0
            /\ r.hoop = Num(61) => r.flags.stress = 1
            /\ r.soil = Num(5000) => r.flags.soil = 0
            /\ r.dist = Num(32) => r.flags.dist = 1
            /\ r.age = Num(10) => r.flags.age = 1

\* C8 amended: as claimed for stress, soil and distance; pipe age at 10 is not
\* flagged and at 11 is (strict >)
C8_Boundaries ==
    (variant \in FlagVariants /\ Assessing) =>
        \A r \in Rows(df) :
            /\ r.hoop = Num(60) => r.flags.stress = 0
            /\ r.hoop = Num(61) => r.flags.stress = 1
            /\ r.soil = Num(5000) => r.flags.soil = 0
            /\ r.soil = Num(4999) => r.flags.soil = 1
            /\ r.dist = Num(32) => r.flags.dist = 1
            /\ r.dist = Num(33) => r.flags.dist = 0
            /\ r.age = Num(10) => r.flags.age = 0
            /\ r.age = Num(11) => r.flags.age = 1

C8_Witness ==
    /\ variant \in FlagVariants /\ Assessing
    /\ \E r \in Rows(df) :
          /\ r.hoop = Num(60) /\ r.soil = Num(5000) /\ r.dist = Num(32) /\ r.age = Num(10)
          /\ r.flags.stress = 0 /\ r.flags.soil = 0 /\ r.flags.dist = 1 /\ r.flags.age = 0

\* C9: with every column present, a blank or unparsable numeric cell never makes
\* the pipeline raise, and once the columns are cleaned every numeric field of
\* every row holds a number
C9_ParseFailuresRecovered ==
    Missing = {} =>
        /\ pc # "failed"
        /\ pc # "loaded" => \A r \in Rows(df) : \A c \in NumCols : IsNum(r[c])

\* hoop stress of sheet row i as parsed, before any rescale
ParsedHoop(i) ==
    IF variant = "graph" THEN ToNumericPct(raw[i].hoop)
    ELSE FillNa(ToNumericPct(raw[i].hoop), 0)

\* the largest parsed hoop stress of the sheet is below 10
MaxParsedBelow10 ==
    /\ \E i \in 1..Len(raw) : IsNum(ParsedHoop(i))
    /\ \A i \in 1..Len(raw) : IsNum(ParsedHoop(i)) => ParsedHoop(i).v < 10

Cleaned == pc \in {"cleaned", "assessed", "ranked", "done"}

\* C10: after cleaning, every row's hoop stress is 100 times its parsed value
\* when the largest parsed value of the sheet is below 10, and its parsed value
\* otherwise
C10_RescaleAllOrNothing ==
    (Cleaned /\ "hoop" \in cols) =>
        \A i \in 1..Len(df) :
            LET h == ParsedHoop(df[i].idx)
            IN  df[i].hoop = IF MaxParsedBelow10 /\ IsNum(h) THEN Num(100 * h.v) ELSE h

C10_Witness ==
    /\ Cleaned /\ "hoop" \in cols /\ MaxParsedBelow10
    /\ \E i, j \in 1..Len(df) :
          /\ ParsedHoop(i).v = 5 /\ df[i].hoop = Num(500)
          /\ ParsedHoop(j).v = 6 /\ df[j].hoop = Num(600)

\* the largest distance of the cleaned sheet (every cell is a number by then)
LargestDist(d) ==
    LET ds == {r.dist.v : r \in Rows(d)}
    IN  CHOOSE m \in ds : \A x \in ds : x <= m

\* C11: in the composite score max_dist is the largest distance of the sheet,
\* or 1 when that is 0, and the composite score of every row is a defined number
C11_MaxDistOneWhenZero ==
    (variant \in {"utils", "utils2"} /\ pc = "done") =>
        \A r \in Rows(df) :
            /\ ~r.RiskScore.nan
            /\ r.RiskScore.M = IF LargestDist(df) = 0 THEN 1 ELSE LargestDist(df)

\* the OFF PSP reading of sheet row i normalised on its own: the absolute value
\* of a number, 0 for a blank or a text
NormalPsp(i) ==
    LET x == raw[i].psp
    IN  IF x.t = "num" THEN Num(IF x.v < 0 THEN -x.v ELSE x.v) ELSE Num(0)

\* C12: in the flag-count scripts every cleaned row's OFF PSP is the absolute
\* value of its reading (0 when unparsable), so it is never negative; every
\* assessed row then has its OFF PSP flag set and a flag count of at least 1
C12_OffPspFlagAlwaysSet ==
    (variant \in FlagVariants /\ "psp" \in cols) =>
        /\ Cleaned =>
              \A r \in Rows(df) \cup Rows(top50) :
                  r.psp = NormalPsp(r.idx) /\ r.psp.v >= 0
        /\ Assessing =>
              \A r \in Rows(df) \cup Rows(top50) :
                  r.flags.psp = 1 /\ r.FlagsSum >= 1

C12_Witness ==
    /\ variant \in FlagVariants /\ Assessing
    /\ \E r \in Rows(df) :
          /\ raw[r.idx].psp = Num(-2) /\ r.psp = Num(2)
          /\ r.flags.psp = 1 /\ r.FlagsSum = 1
====
